---- MODULE Spec2Model ----
(***************************************************************************)
(* A model of the hyperspectral extractor (terra_hyperspectral.py) and of  *)
(* its structural validator (hyperspectral_test.py).                       *)
(*                                                                         *)
(* Three specifications share the variables below:                         *)
(*   Spec          HyperspectralRaw2NetCDF.process_message, one capture    *)
(*   SpecFiles     check_message / has_all_files / get_all_files           *)
(*   SpecValidator the unittest suite and the process exit status          *)
(* Python's None/True/False are the strings "None"/"True"/"False" where a  *)
(* variable may hold None; a None entry of a dict is the record NoneFile.  *)
(***************************************************************************)
EXTENDS Integers, Sequences, FiniteSets, TLC

VARIABLES
    mode,           \* which program runs: "process", "check" or "validate"
    pc,             \* position inside the running handler
    resource,       \* the resource handed to the handler
    target_files,   \* process_message: role suffix -> NoneFile or [filename, path]
    metafile,       \* process_message: capture-level metadata path or "None"
    ds_metafile,    \* process_message: container-level metadata path or "None"
    last_path,      \* process_message: directory seen last, or "None"
    path_match,     \* process_message: "None", "True" or "False"
    tempdir,        \* process_message: staging directory or "None"
    symlinks,       \* process_message: recorded link paths
    todo,           \* process_message: keys the staging loop has still to visit
    fs,             \* file system: paths that exist (staging directory, links, output)
    mdfiles,        \* file system: content of each metadata file
    conv,           \* conversion step: sequence of invocations [input, output, mask]
    returncode,     \* process_message: status of the conversion step; -1 before it ran
    uploads,        \* data-management service: uploaded paths
    created,        \* extractor counter self.created
    bytes,          \* extractor counter self.bytes
    traits,         \* trait database: submitted rows
    csv,            \* the trait row written to traits.csv, or "None"
    err,            \* the exception that ended the handler, or NoErr
    ended,          \* end_message was called
    listing,        \* check_message: get_all_files' result
    verdict,        \* check_message: has_all_files' result, "True" or "False"
    checkResult,    \* check_message: the CheckMessage returned, or "None"
    container,      \* validator: the container under test
    outcome,        \* validator: test name -> outcome
    tally,          \* validator: the TestResult's counters
    exitStatus      \* validator: process exit status, or -1

vars == <<mode, pc, resource, target_files, metafile, ds_metafile, last_path,
          path_match, tempdir, symlinks, todo, fs, mdfiles, conv, returncode,
          uploads, created, bytes, traits, csv, err, ended, listing, verdict,
          checkResult, container, outcome, tally, exitStatus>>

procVars == <<target_files, metafile, ds_metafile, last_path, path_match,
              tempdir, symlinks, todo, fs, mdfiles, conv, returncode, uploads,
              created, bytes, traits, csv, err, ended>>
checkVars == <<listing, verdict, checkResult>>
validVars == <<container, outcome, tally, exitStatus>>

---------------------------------------------------------------------------
(* Bounds of the model *)

NumDirs == 2
MaxFiles == 5
MaxAngles == 2

---------------------------------------------------------------------------
(* Python string and path functions *)

\* str.endswith
EndsWith(s, suf) ==
    /\ Len(s) >= Len(suf)
    /\ (Len(suf) = 0 \/ SubSeq(s, Len(s) - Len(suf) + 1, Len(s)) = suf)

\* s[:n] and s[n:] with n counted as Python does
Prefix(s, n) == IF n <= 0 THEN "" ELSE SubSeq(s, 1, IF n > Len(s) THEN Len(s) ELSE n)
Suffix(s, n) == IF n >= Len(s) THEN "" ELSE SubSeq(s, n + 1, Len(s))

\* str.rfind('/') + 1
RFindSlash(s) ==
    LET hits == {i \in 1..Len(s) : SubSeq(s, i, i) = "/"}
    IN  IF hits = {} THEN 0 ELSE CHOOSE i \in hits : \A j \in hits : j <= i

RECURSIVE RStripSlash(_)
RStripSlash(s) ==
    IF Len(s) > 0 /\ SubSeq(s, Len(s), Len(s)) = "/"
    THEN RStripSlash(Prefix(s, Len(s) - 1))
    ELSE s

\* posixpath.dirname
dirname(p) ==
    LET head == Prefix(p, RFindSlash(p))
    IN  IF RStripSlash(head) = "" THEN head ELSE RStripSlash(head)

\* posixpath.basename
basename(p) == Suffix(p, RFindSlash(p))

\* posixpath.join(a, b) for a relative b
join(a, b) == IF a = "" \/ EndsWith(a, "/") THEN a \o b ELSE a \o "/" \o b

\* str.replace(old, new), old not empty
RECURSIVE Replace(_, _, _)
Replace(s, old, new) ==
    IF Len(s) < Len(old) THEN s
    ELSE IF Prefix(s, Len(old)) = old
         THEN new \o Replace(Suffix(s, Len(old)), old, new)
         ELSE Prefix(s, 1) \o Replace(Suffix(s, 1), old, new)

---------------------------------------------------------------------------
(* Python values *)

PyNone == "None"
NoneFile == [none |-> TRUE]
NoErr == [type |-> "None", msg |-> ""]
Raised(type, msg) == [type |-> type, msg |-> msg]

\* truth value of a Python object held in a variable
Truthy(v) == v \notin {"None", "False", ""}

---------------------------------------------------------------------------
(* Inputs of process_message *)

\* str.find: the index (from 0) of the first occurrence of sub, or -1
Find(s, sub) ==
    LET hits == {i \in 1..(Len(s) - Len(sub) + 1) : SubSeq(s, i, i + Len(sub) - 1) = sub}
    IN  IF hits = {} THEN -1 ELSE (CHOOSE i \in hits : \A j \in hits : i <= j) - 1

\* name.split(" - ")[1] for a name with one or more separators
SplitSecond(name) ==
    LET rest == Suffix(name, Find(name, " - ") + 3)
    IN  IF Find(rest, " - ") = -1 THEN rest ELSE Prefix(rest, Find(rest, " - "))

\* the keys of target_files in process_message
TargetExts == {"raw", "raw.hdr", "image.jpg", "frameIndex.txt", "settings.txt",
               "_metadata.json"}

\* the keys of target_files in get_all_files
ListingExts == {"raw", "raw.hdr", "image.jpg", "frameIndex.txt", "settings.txt"}

Dirs == {"/d" \o ToString(i) : i \in 1..NumDirs}

\* base names of one capture's files, in the order they are listed
RoleNames == <<"cap_raw", "cap_raw.hdr", "cap_image.jpg", "cap_frameIndex.txt",
               "cap_settings.txt">>

Absent == "absent"

\* one optional path
Opt(dir, name) == IF dir = Absent THEN <<>> ELSE <<join(dir, name)>>

\* the capture-level metadata slot: absent, a bare "_metadata.json", a metadata file
\* named after the raw file in some directory, or one with a base name of its own
MetaSlots ==
    {<<>>, <<"/d1/_metadata.json">>, <<"/d1/scan_metadata.json">>}
        \cup {<<join(d, "cap_metadata.json")>> : d \in Dirs}

\* the container-level metadata slot
DsSlots == {<<>>, <<"/d1/_dataset_metadata.json">>}

\* resource['local_paths']: each role absent or in one of the directories
LocalPaths ==
    { Opt(ch[1], RoleNames[1]) \o Opt(ch[2], RoleNames[2]) \o m
        \o Opt(ch[3], RoleNames[3]) \o Opt(ch[4], RoleNames[4])
        \o Opt(ch[5], RoleNames[5]) \o d :
      ch \in [1..5 -> Dirs \cup {Absent}], m \in MetaSlots, d \in DsSlots }

DatasetNames == {"VNIR - 2017-04-27__12-00-00-000", "SWIR - 2017-04-27__12-00-00-000"}

Resources ==
    { [id |-> "5a1f", name |-> n, local_paths |-> lp] :
      n \in DatasetNames, lp \in LocalPaths }

\* self.sensors.create_sensor_path / get_sensor_path (terrautils)
SensorPath(timestamp, sensor, opt) ==
    "/sites/" \o sensor \o "/" \o timestamp \o opt \o ".nc"

sensor_fullname(res) == IF Find(res.name, "SWIR") > -1 THEN "swir_netcdf" ELSE "vnir_netcdf"
timestamp(res) == SplitSecond(res.name)
outFilePath(res) == SensorPath(timestamp(res), sensor_fullname(res), "")
ind_file(res) == SensorPath(timestamp(res), sensor_fullname(res), "_ind")
soil_mask(res) ==
    IF Find(res.name, "SWIR") > -1 THEN PyNone
    ELSE SensorPath(timestamp(res), "vnir_soil_masks", "_soil_mask")

\* tempfile.mkdtemp
MkDTemp == "/tmp/tmpq7x"

\* get_terraref_metadata (terrautils): the normalization of a metadata document
get_terraref_metadata(doc) == [shape |-> "capture", of |-> doc]

\* what the metadata files hold before the run
InitMdFiles(res) ==
    [p \in {res.local_paths[i] : i \in 1..Len(res.local_paths)} \cap
           {q \in {res.local_paths[i] : i \in 1..Len(res.local_paths)} :
                EndsWith(q, "_metadata.json")} |->
        IF EndsWith(p, "/_dataset_metadata.json")
        THEN [shape |-> "container", of |-> p]
        ELSE [shape |-> "capture", of |-> p]]

---------------------------------------------------------------------------
(* process_message: the classification loop *)

LoopInit ==
    [target_files |-> [e \in TargetExts |-> NoneFile],
     metafile |-> PyNone, ds_metafile |-> PyNone,
     last_path |-> PyNone, path_match |-> PyNone]

\* the body of the inner loop for path f and a suffix fileExt that f ends with
ClassifyAs(st, f, fileExt) ==
    IF fileExt # "_metadata.json"
    THEN LET filedir == dirname(f)
         IN  [st EXCEPT
                !.path_match = IF Truthy(st.last_path) /\ filedir # st.last_path
                               THEN "False" ELSE @,
                !.last_path = filedir,
                !.target_files[fileExt] = [filename |-> basename(f), path |-> f]]
    ELSE IF EndsWith(f, "/_dataset_metadata.json")
         THEN [st EXCEPT !.ds_metafile = f]
         ELSE IF ~EndsWith(f, "/_metadata.json")
              THEN [st EXCEPT
                      !.metafile = f,
                      !.target_files["_metadata.json"] =
                          [filename |-> basename(f), path |-> f]]
              ELSE st

\* the inner loop: no path ends with two of the suffixes, so its order is immaterial
ClassifyPath(st, f) ==
    LET hit == {e \in TargetExts : EndsWith(f, e)}
    IN  IF hit = {} THEN st ELSE ClassifyAs(st, f, CHOOSE e \in hit : TRUE)

RECURSIVE ClassifyLoop(_, _)
ClassifyLoop(st, paths) ==
    IF paths = <<>> THEN st
    ELSE ClassifyLoop(ClassifyPath(st, Head(paths)), Tail(paths))

---------------------------------------------------------------------------
(* process_message *)

otherVars == <<mode, resource, listing, verdict, checkResult, container, outcome, tally,
               exitStatus>>

\* an exception leaves process_message: nothing after the raise runs
Raise(e) == pc' = "raised" /\ err' = e

\* for fileExt in target_files.keys(): the order of a dict's keys is not specified;
\* the model takes the order of the literal and its reverse
KeyOrders ==
    { <<"raw", "raw.hdr", "image.jpg", "frameIndex.txt", "settings.txt", "_metadata.json">>,
      <<"_metadata.json", "settings.txt", "frameIndex.txt", "image.jpg", "raw.hdr", "raw">> }

\* os.path.getsize of the produced container
getsize(p) == 2048

\* the value of the NDVI705 variable of the indices file
NDVI705 == "0.42"

csv_header ==
    "local_datetime,NDVI705,access_level,species,site,citation_author,citation_year,citation_title,method"

csv_vals(res) ==
    timestamp(res) \o "," \o NDVI705 \o ",2,Sorghum bicolor,Full Field,\"Butowsky, Henry\",2016,"
        \o "Maricopa Field Station Data and Metadata,Hyperspectral NDVI705 Indices"

\* the variables of process_message as its first lines set them
ProcessStart ==
    /\ target_files = LoopInit.target_files
    /\ metafile = PyNone
    /\ ds_metafile = PyNone
    /\ last_path = PyNone
    /\ path_match = PyNone
    /\ tempdir = PyNone
    /\ symlinks = <<>>
    /\ todo = <<>>
    /\ fs = {}
    /\ conv = <<>>
    /\ returncode = -1
    /\ uploads = <<>>
    /\ created = 0
    /\ bytes = 0
    /\ traits = <<>>
    /\ csv = PyNone
    /\ err = NoErr
    /\ ended = FALSE

\* check_message has not run
CheckIdle == listing = <<>> /\ verdict = PyNone /\ checkResult = PyNone

\* the validator has not run
ValidatorIdle == container = <<>> /\ outcome = <<>> /\ tally = <<>> /\ exitStatus = -1

Init ==
    /\ mode = "process"
    /\ pc = "start"
    /\ resource \in Resources
    /\ ProcessStart
    /\ mdfiles = InitMdFiles(resource)
    /\ CheckIdle
    /\ ValidatorIdle

\* lines 79-113: the loop over resource['local_paths']
Classify ==
    /\ mode = "process" /\ pc = "start"
    /\ LET st == ClassifyLoop(LoopInit, resource.local_paths)
       IN  /\ target_files' = st.target_files
           /\ metafile' = st.metafile
           /\ ds_metafile' = st.ds_metafile
           /\ last_path' = st.last_path
           /\ path_match' = st.path_match
    /\ pc' = "resolve"
    /\ UNCHANGED <<tempdir, symlinks, todo, fs, mdfiles, conv, returncode, uploads,
                   created, bytes, traits, csv, err, ended, otherVars>>

\* lines 116-125 without the final raise
ResolveErrorNoRaise ==
    IF metafile = PyNone /\ ds_metafile # PyNone
    THEN IF target_files["raw"] = NoneFile
         THEN Raised("TypeError", "'NoneType' object has no attribute '__getitem__'")
         ELSE Raised("AttributeError", "'module' object has no attribute 'listdir'")
    ELSE NoErr

\* the exception of lines 116-125, or NoErr when they pass
ResolveError ==
    IF metafile = PyNone
    THEN IF ds_metafile # PyNone
         THEN IF target_files["raw"] = NoneFile
              THEN Raised("TypeError", "'NoneType' object has no attribute '__getitem__'")
              ELSE Raised("AttributeError", "'module' object has no attribute 'listdir'")
         ELSE Raised("ValueError", "could not locate metadata for " \o resource.id)
    ELSE NoErr

\* lines 115-125: identify the metadata file
ResolveMetadata ==
    /\ mode = "process" /\ pc = "resolve"
    /\ IF ResolveError # NoErr
       THEN Raise(ResolveError)
       ELSE pc' = "stage" /\ err' = err
    /\ UNCHANGED <<target_files, metafile, ds_metafile, last_path, path_match, tempdir,
                   symlinks, todo, fs, mdfiles, conv, returncode, uploads, created,
                   bytes, traits, csv, ended, otherVars>>

\* lines 128-130: if not path_match, make the staging directory
StageBegin ==
    /\ mode = "process" /\ pc = "stage"
    /\ IF ~Truthy(path_match)
       THEN /\ tempdir' = MkDTemp
            /\ fs' = fs \cup {MkDTemp}
            /\ todo' \in KeyOrders
            /\ pc' = "link"
       ELSE /\ pc' = "convert"
            /\ UNCHANGED <<tempdir, fs, todo>>
    /\ UNCHANGED <<target_files, metafile, ds_metafile, last_path, path_match, symlinks,
                   mdfiles, conv, returncode, uploads, created, bytes, traits, csv,
                   err, ended, otherVars>>

\* lines 131-141 with the raw-derived name given to every metadata entry
LinkNameAfterRaw(currf) ==
    IF EndsWith(currf.filename, "_metadata.json") /\ target_files["raw"] # NoneFile
    THEN join(tempdir, Replace(target_files["raw"].filename, "_raw", "") \o "_metadata.json")
    ELSE join(tempdir, currf.filename)

\* lines 131-141: the name of the link for entry currf
LinkName(currf) ==
    IF currf.filename = "_dataset_metadata.json"
    THEN join(tempdir, Replace(target_files["raw"].filename, "_raw", "") \o "_metadata.json")
    ELSE join(tempdir, currf.filename)

\* lines 133-138: the container-level document is rewritten in normalized form
RewriteMetadata(currf) ==
    IF currf.filename = "_dataset_metadata.json"
    THEN [mdfiles EXCEPT ![currf.path] = get_terraref_metadata(@)]
    ELSE mdfiles

\* lines 130-143: one turn of the staging loop, the link is made
StageLink ==
    /\ mode = "process" /\ pc = "link" /\ todo # <<>>
    /\ LET currf == target_files[Head(todo)]
       IN  IF currf = NoneFile
           THEN /\ Raise(Raised("TypeError", "'NoneType' object has no attribute '__getitem__'"))
                /\ UNCHANGED <<mdfiles, fs, symlinks, todo>>
           ELSE /\ LinkName(currf) \notin fs
                /\ mdfiles' = RewriteMetadata(currf)
                /\ fs' = fs \cup {LinkName(currf)}
                /\ symlinks' = Append(symlinks, LinkName(currf))
                /\ todo' = Tail(todo)
                /\ pc' = IF Tail(todo) = <<>> THEN "convert" ELSE "link"
                /\ err' = err
    /\ UNCHANGED <<target_files, metafile, ds_metafile, last_path, path_match, tempdir,
                   conv, returncode, uploads, created, bytes, traits, csv, ended,
                   otherVars>>

\* line 142: os.symlink raises (the link exists, the directory is not writable)
StageLinkFails ==
    /\ mode = "process" /\ pc = "link" /\ todo # <<>>
    /\ target_files[Head(todo)] # NoneFile
    /\ mdfiles' = RewriteMetadata(target_files[Head(todo)])
    /\ Raise(Raised("OSError", "symlink"))
    /\ UNCHANGED <<target_files, metafile, ds_metafile, last_path, path_match, tempdir,
                   symlinks, todo, fs, conv, returncode, uploads, created, bytes, traits,
                   csv, ended, otherVars>>

\* the statuses hyperspectral_workflow.sh ends with
ExitCodes == {0, 1, 2}

\* lines 146-166: the conversion step is run on target_files['raw']['path']
Convert ==
    /\ mode = "process" /\ pc = "convert"
    /\ IF target_files["raw"] = NoneFile
       THEN /\ Raise(Raised("TypeError", "'NoneType' object has no attribute '__getitem__'"))
            /\ UNCHANGED <<conv, returncode, fs>>
       ELSE /\ conv' = Append(conv, [input |-> target_files["raw"].path,
                                     output |-> outFilePath(resource),
                                     mask |-> soil_mask(resource)])
            /\ \E rc \in ExitCodes, produced \in BOOLEAN :
                  /\ returncode' = rc
                  /\ fs' = IF produced THEN fs \cup {outFilePath(resource)} ELSE fs
            /\ pc' = "verify"
            /\ err' = err
    /\ UNCHANGED <<target_files, metafile, ds_metafile, last_path, path_match, tempdir,
                   symlinks, todo, mdfiles, uploads, created, bytes, traits, csv, ended,
                   otherVars>>

\* line 170 taking only a negative status (death by a signal) as a failure
ConversionFailedBySignal == returncode < 0

\* line 170: a non-zero status is a failure
ConversionFailed == returncode # 0

InLocalPaths(p) == \E i \in 1..Len(resource.local_paths) : resource.local_paths[i] = p

\* lines 168-185: check the status and the output, upload the output
Verify ==
    /\ mode = "process" /\ pc = "verify"
    /\ IF ConversionFailed
       THEN /\ Raise(Raised("ValueError", "script encountered an error"))
            /\ UNCHANGED <<uploads, created, bytes>>
       ELSE /\ IF outFilePath(resource) \in fs
               THEN /\ uploads' = IF InLocalPaths(outFilePath(resource))
                                  THEN uploads
                                  ELSE Append(uploads, outFilePath(resource))
                    /\ created' = created + 1
                    /\ bytes' = bytes + getsize(outFilePath(resource))
               ELSE UNCHANGED <<uploads, created, bytes>>
            /\ pc' = "traits"
            /\ err' = err
    /\ UNCHANGED <<target_files, metafile, ds_metafile, last_path, path_match, tempdir,
                   symlinks, todo, fs, mdfiles, conv, returncode, traits, csv, ended,
                   otherVars>>

\* lines 175-181: build_dataset_hierarchy or upload_to_dataset raises
VerifyUploadFails ==
    /\ mode = "process" /\ pc = "verify"
    /\ ~ConversionFailed
    /\ outFilePath(resource) \in fs
    /\ ~InLocalPaths(outFilePath(resource))
    /\ Raise(Raised("RequestException", "upload"))
    /\ UNCHANGED <<target_files, metafile, ds_metafile, last_path, path_match, tempdir,
                   symlinks, todo, fs, mdfiles, conv, returncode, uploads, created,
                   bytes, traits, csv, ended, otherVars>>

\* what opening the indices file can give
IndFiles == {"missing", "novariable", "ok"}

\* lines 187-203: read NDVI705 from the indices file and write traits.csv
ExtractTraits ==
    /\ mode = "process" /\ pc = "traits"
    /\ \E ind \in IndFiles :
          IF ind = "missing"
          THEN Raise(Raised("IOError", ind_file(resource))) /\ csv' = csv
          ELSE IF ind = "novariable"
               THEN Raise(Raised("IndexError", "list index out of range")) /\ csv' = csv
               ELSE /\ csv' = csv_header \o "\n" \o csv_vals(resource)
                    /\ pc' = "submit"
                    /\ err' = err
    /\ UNCHANGED <<target_files, metafile, ds_metafile, last_path, path_match, tempdir,
                   symlinks, todo, fs, mdfiles, conv, returncode, uploads, created,
                   bytes, traits, ended, otherVars>>

\* line 205: the row is submitted
SubmitTraits ==
    /\ mode = "process" /\ pc = "submit"
    /\ traits' = Append(traits, csv)
    /\ pc' = "cleanup"
    /\ UNCHANGED <<target_files, metafile, ds_metafile, last_path, path_match, tempdir,
                   symlinks, todo, fs, mdfiles, conv, returncode, uploads, created,
                   bytes, csv, err, ended, otherVars>>

\* line 205: submit_traits raises
SubmitTraitsFails ==
    /\ mode = "process" /\ pc = "submit"
    /\ Raise(Raised("RequestException", "submit_traits"))
    /\ UNCHANGED <<target_files, metafile, ds_metafile, last_path, path_match, tempdir,
                   symlinks, todo, fs, mdfiles, conv, returncode, uploads, created,
                   bytes, traits, csv, ended, otherVars>>

\* lines 207-211: remove the links and the staging directory
Cleanup ==
    /\ mode = "process" /\ pc = "cleanup"
    /\ fs' = (fs \ {symlinks[i] : i \in 1..Len(symlinks)})
                 \ (IF Truthy(tempdir) THEN {tempdir} ELSE {})
    /\ pc' = "end"
    /\ UNCHANGED <<target_files, metafile, ds_metafile, last_path, path_match, tempdir,
                   symlinks, todo, mdfiles, conv, returncode, uploads, created, bytes,
                   traits, csv, err, ended, otherVars>>

\* line 213: end_message
EndMessage ==
    /\ mode = "process" /\ pc = "end"
    /\ ended' = TRUE
    /\ pc' = "done"
    /\ UNCHANGED <<target_files, metafile, ds_metafile, last_path, path_match, tempdir,
                   symlinks, todo, fs, mdfiles, conv, returncode, uploads, created,
                   bytes, traits, csv, err, otherVars>>

Next ==
    \/ Classify
    \/ ResolveMetadata
    \/ StageBegin
    \/ StageLink
    \/ StageLinkFails
    \/ Convert
    \/ Verify
    \/ VerifyUploadFails
    \/ ExtractTraits
    \/ SubmitTraits
    \/ SubmitTraitsFails
    \/ Cleanup
    \/ EndMessage

Spec == Init /\ [][Next]_vars

---------------------------------------------------------------------------
(* Properties of process_message *)

PathsOf(res) == {res.local_paths[i] : i \in 1..Len(res.local_paths)}

\* the paths of the five non-metadata roles
RolePaths(res) ==
    {p \in PathsOf(res) : \E e \in ListingExts : EndsWith(p, e)}

\* every non-metadata path of the input lies in one directory
CoLocated(res) == Cardinality({dirname(p) : p \in RolePaths(res)}) <= 1

\* the five non-metadata roles are all among the input paths
Complete(res) == \A e \in ListingExts : \E p \in PathsOf(res) : EndsWith(p, e)

\* the container-level and the capture-level metadata files of the input
DsMetaPaths(res) == {p \in PathsOf(res) : basename(p) = "_dataset_metadata.json"}
CaptureMetaPaths(res) ==
    {p \in PathsOf(res) : /\ EndsWith(p, "_metadata.json")
                          /\ basename(p) \notin {"_dataset_metadata.json", "_metadata.json"}}

Finished == pc \in {"done", "raised"}

\* C1: once the staging directory has been created for a complete capture, however
\* the run ends (normally,
\* or by a failed link, a non-zero status, a failed trait lookup or submission),
\* none of the recorded links exists and the staging directory does not exist.
C1_StagingRemovedOnEveryExit ==
    (mode = "process" /\ Complete(resource) /\ Finished /\ tempdir # PyNone) =>
        /\ \A i \in 1..Len(symlinks) : symlinks[i] \notin fs
        /\ tempdir \notin fs

\* C2: when the non-metadata files of a complete capture lie in one directory, no
\* staging directory and no link is ever created.
C2_NoStagingWhenCoLocated ==
    (mode = "process" /\ Complete(resource) /\ CoLocated(resource)) =>
        /\ tempdir = PyNone
        /\ symlinks = <<>>
        /\ fs \subseteq {outFilePath(resource)}

\* C3: after the classification loop over paths that hold some non-metadata role,
\* path_match is true when the non-metadata paths lie in one directory and false
\* when one of them lies elsewhere, whatever the metadata paths are.
C3_PathMatchTellsCoLocation ==
    (mode = "process" /\ pc # "start" /\ RolePaths(resource) # {}) =>
        path_match = (IF CoLocated(resource) THEN "True" ELSE "False")

\* C5: with a container-level metadata file and no capture-level one, a complete
\* capture gets its metadata resolved: the run does not end before the conversion
\* step unless a link cannot be made, and the container-level file then holds the
\* normalized document.
C5_ContainerMetadataResolved ==
    (/\ mode = "process" /\ Finished
     /\ Complete(resource)
     /\ DsMetaPaths(resource) # {} /\ CaptureMetaPaths(resource) = {}
     /\ err.type # "OSError") =>
        /\ conv # <<>>
        /\ \A p \in DsMetaPaths(resource) :
              mdfiles[p] = get_terraref_metadata(InitMdFiles(resource)[p])

\* C6: with neither a capture-level nor a container-level metadata file the run
\* ends with the error "could not locate metadata for <id>", and no staging
\* directory, conversion, upload or trait submission ever happens.
C6_MissingMetadataIsFatal ==
    (/\ mode = "process"
     /\ DsMetaPaths(resource) = {} /\ CaptureMetaPaths(resource) = {}) =>
        /\ pc \in {"start", "resolve", "raised"}
        /\ pc = "raised" =>
              err = Raised("ValueError", "could not locate metadata for " \o resource.id)
        /\ tempdir = PyNone /\ symlinks = <<>> /\ fs = {}
        /\ conv = <<>> /\ uploads = <<>> /\ traits = <<>> /\ csv = PyNone
        /\ created = 0 /\ ~ended

C6_Witness ==
    /\ mode = "process" /\ pc = "raised"
    /\ DsMetaPaths(resource) = {} /\ CaptureMetaPaths(resource) = {}
    /\ Complete(resource)
    /\ err.type = "ValueError"

\* C7: after a non-zero status of the conversion step the run ends with an error:
\* nothing is uploaded, the counters stay, no trait row is submitted and the
\* conversion step is not run again.
C7_ConversionFailureIsFatal ==
    (mode = "process" /\ returncode \notin {0, -1}) =>
        /\ pc \in {"verify", "raised"}
        /\ pc = "raised" => err = Raised("ValueError", "script encountered an error")
        /\ uploads = <<>> /\ created = 0 /\ bytes = 0
        /\ traits = <<>> /\ csv = PyNone
        /\ Len(conv) = 1
        /\ ~ended

C7_Witness ==
    /\ mode = "process" /\ pc = "raised" /\ returncode = 1
    /\ outFilePath(resource) \in fs
    /\ err.type = "ValueError"

\* C8: when the conversion step returns 0 and no file exists at the output path,
\* nothing is uploaded and the run does not finish as a success: no trait row is
\* submitted and end_message is not reached.
C8_MissingOutputIsFatal ==
    (/\ mode = "process" /\ returncode = 0
     /\ pc \notin {"verify"}
     /\ outFilePath(resource) \notin fs) =>
        /\ uploads = <<>>
        /\ traits = <<>>
        /\ pc # "done" /\ ~ended

---------------------------------------------------------------------------
(* check_message, has_all_files, get_all_files *)

\* file names a dataset listing may hold
FileNames ==
    {"cap_raw", "cap_raw.hdr", "cap_image.jpg", "cap_frameIndex.txt", "cap_settings.txt",
     "cap_metadata.json", "cap_settings.txt.bak"}

\* resource['files']: up to MaxFiles entries, no name twice
FileLists ==
    UNION { { [i \in 1..n |-> [id |-> "f" \o ToString(i), filename |-> names[i]]] :
              names \in {f \in [1..n -> FileNames] :
                            \A i, j \in 1..n : f[i] = f[j] => i = j} } :
            n \in 0..MaxFiles }

\* the resources check_message sees: with a 'files' entry or without one
CheckResources ==
    { [id |-> "5a1f", name |-> n, has_files |-> TRUE, files |-> fl] :
        n \in DatasetNames, fl \in FileLists }
    \cup { [id |-> "5a1f", name |-> n, has_files |-> FALSE, files |-> <<>>] :
             n \in DatasetNames }

\* lines 227-234: one file of the listing
NoteFile(found, fileItem) ==
    [e \in ListingExts |->
        IF EndsWith(fileItem.filename, e)
        THEN [id |-> fileItem.id, filename |-> fileItem.filename]
        ELSE found[e]]

RECURSIVE NoteFiles(_, _)
NoteFiles(found, files) ==
    IF files = <<>> THEN found
    ELSE NoteFiles(NoteFile(found, Head(files)), Tail(files))

\* lines 216-236
get_all_files(res) ==
    IF res.has_files
    THEN NoteFiles([e \in ListingExts |-> NoneFile], res.files)
    ELSE [e \in ListingExts |-> NoneFile]

\* has_all_files with the flag set by the last role alone
has_all_filesAny(res) ==
    \E fileExt \in ListingExts : get_all_files(res)[fileExt] # NoneFile

\* lines 239-247
has_all_files(res) ==
    \A fileExt \in ListingExts : get_all_files(res)[fileExt] # NoneFile

PyBool(b) == IF b THEN "True" ELSE "False"

InitFiles ==
    /\ mode = "check"
    /\ pc = "start"
    /\ resource \in CheckResources
    /\ ProcessStart
    /\ mdfiles = <<>>
    /\ CheckIdle
    /\ ValidatorIdle

\* line 47: check_message asks has_all_files
CallHasAllFiles ==
    /\ mode = "check" /\ pc = "start"
    /\ listing' = get_all_files(resource)
    /\ verdict' = PyBool(has_all_files(resource))
    /\ pc' = "gate"
    /\ UNCHANGED <<mode, resource, procVars, checkResult, validVars>>

\* lines 47-74: what check_message returns; self.overwrite, the existence of the
\* output and the extractor metadata of the dataset are the environment's
ReturnCheckMessage ==
    /\ mode = "check" /\ pc = "gate"
    /\ \E overwrite \in BOOLEAN, exists \in BOOLEAN, processed \in BOOLEAN :
          checkResult' =
              IF verdict = "True"
              THEN IF exists /\ ~overwrite THEN "ignore"
                   ELSE IF processed /\ ~overwrite THEN "ignore" ELSE "download"
              ELSE "ignore"
    /\ pc' = "returned"
    /\ UNCHANGED <<mode, resource, procVars, listing, verdict, validVars>>

NextFiles == CallHasAllFiles \/ ReturnCheckMessage

SpecFiles == InitFiles /\ [][NextFiles]_vars

\* C4: has_all_files is true exactly when each of the five suffixes ends some
\* file name of the listing, and false for a resource without a listing.
C4_HasAllFilesIffFiveRoles ==
    (mode = "check" /\ pc # "start") =>
        verdict = PyBool(
            /\ resource.has_files
            /\ \A suffix \in {"raw", "raw.hdr", "image.jpg", "frameIndex.txt", "settings.txt"} :
                  \E i \in 1..Len(resource.files) :
                      EndsWith(resource.files[i].filename, suffix))

C4_Witness ==
    /\ mode = "check" /\ pc = "gate"
    /\ verdict = "False"
    /\ Len(resource.files) = 4
    /\ \A suffix \in {"raw", "raw.hdr", "image.jpg", "frameIndex.txt"} :
          \E i \in 1..Len(resource.files) : EndsWith(resource.files[i].filename, suffix)

---------------------------------------------------------------------------
(* hyperspectral_test.py: the validator *)

EXPECTED_NUMBER_OF_DIMENSIONS == 4

\* MAXIMUM_PLANT_REFLECTANCE, 0.6, in hundredths
MAXIMUM_PLANT_REFLECTANCE == 60

\* the band counts of lines 104 and 132
BandCounts == {272, 273, 275, 939, 955}

AllAttributes == {"units", "reference_point", "long_name", "algorithm"}

\* the values an angle may take, in degrees
Angles == {-5, 45, 95}

AngleArrays == UNION {[1..n -> Angles] : n \in 0..MaxAngles}

\* the frametime variable, or its absence
FrameTimes ==
    { [present |-> TRUE, calender |-> cal, units |-> "days since 1970-01-01 00:00:00",
       first |-> v] : cal \in {"gregorian", "standard"}, v \in {15000, 20000} }
    \cup { [present |-> FALSE, calender |-> "", units |-> "", first |-> 0] }

\* the containers the validator is run on; wavelengths are in nanometres,
\* reflectances in hundredths
Containers ==
    [ readable : {TRUE},
      ndims : {4, 5},
      y : {169},
      time : {150, 169},
      wavelength_dim : {272, 273, 274, 275, 300, 939, 955},
      wavelength : [len : {273, 300}, first : {400, 1200}],
      history : {"", "Thu Apr 27 12:00:00 2017: python hyperspectral_metadata.py"},
      frametime : FrameTimes,
      x : {AllAttributes, AllAttributes \ {"algorithm"}},
      y_var : {AllAttributes, AllAttributes \ {"units"}},
      rfl_img : {<<35, 50>>, <<35, 70>>},
      solar_zenith_angle : AngleArrays ]

\* a file that netCDF4.Dataset cannot open
Unreadable ==
    [ readable |-> FALSE, ndims |-> 0, y |-> 0, time |-> 0, wavelength_dim |-> 0,
      wavelength |-> [len |-> 0, first |-> 0], history |-> "",
      frametime |-> [present |-> FALSE, calender |-> "", units |-> "", first |-> 0],
      x |-> {}, y_var |-> {}, rfl_img |-> <<>>, solar_zenith_angle |-> <<>> ]

Assert_(cond) == IF cond THEN "pass" ELSE "fail"

\* (array > bound).any()
AnyAbove(arr, bound) == \E i \in 1..Len(arr) : arr[i] > bound
AnyBelow(arr, bound) == \E i \in 1..Len(arr) : arr[i] < bound

\* lines 90-95
testTheNumberOfDimensionsInRootLevelIsCorrect(c) ==
    Assert_(c.ndims = EXPECTED_NUMBER_OF_DIMENSIONS)

\* lines 100-101
testTheYDimensionsMatchesTimeDimension(c) == Assert_(c.y = c.time)

\* lines 103-104 with the band counts read as a range
testTheWavelengthDimensionsInRange(c) ==
    Assert_(c.wavelength_dim >= 272 /\ c.wavelength_dim <= 955)

\* lines 103-104
testTheWavelengthDimensionsHaveCorrectValues(c) == Assert_(c.wavelength_dim \in BandCounts)

\* lines 127-132
testWavelengthArrayHasEnoughData(c) == Assert_(c.wavelength.len \in BandCounts)

\* lines 134-138: 3e-7 m and 1e-6 m are 300 nm and 1000 nm
testWavelengthArrayHasCorrectData(c) ==
    Assert_(c.wavelength.first > 300 /\ c.wavelength.first < 1000)

\* lines 140-146
testHistoryIsCorrectlyRecorded(c) == Assert_(c.history # "")

\* lines 151-155
testFrameTimeHasCorrectCalendarAttr(c) ==
    Assert_(c.frametime.present /\ c.frametime.calender = "gregorian")

\* lines 157-159: a missing variable is a KeyError
testFrameTimeHasCorrectUnitsAttr(c) ==
    IF ~c.frametime.present THEN "error"
    ELSE Assert_(c.frametime.units = "days since 1970-01-01 00:00:00")

\* lines 161-163
testFrameTimeHasCorrectValue(c) ==
    IF ~c.frametime.present THEN "error" ELSE Assert_(c.frametime.first > 16000)

\* lines 236-240
testXHasEnoughAttributes(c) == Assert_(AllAttributes \subseteq c.x)

\* lines 243-247
testYHasEnoughAttributes(c) == Assert_(AllAttributes \subseteq c.y_var)

\* lines 251-255
testCalibrationGraphIsOverReflected(c) ==
    Assert_(~AnyAbove(c.rfl_img, MAXIMUM_PLANT_REFLECTANCE))

\* lines 257-262
testSolarZenithAngleInReseaonableRange(c) ==
    LET result_over == AnyAbove(c.solar_zenith_angle, 90)
        result_lower == AnyBelow(c.solar_zenith_angle, 0)
    IN  Assert_(~(result_over /\ result_lower))

\* lines 265-269: SATURATED_EXPOSURE is not defined anywhere, a NameError
testCalibrationGraphIsOverExposured(c) == "error"

\* the methods marked @unittest.expectedFailure
ExpectedFailures ==
    {"testTheNumberOfDimensionsInRootLevelIsCorrect", "testCalibrationGraphIsOverReflected",
     "testCalibrationGraphIsOverExposured"}

Required ==
    {"testTheYDimensionsMatchesTimeDimension", "testTheWavelengthDimensionsHaveCorrectValues",
     "testWavelengthArrayHasEnoughData", "testWavelengthArrayHasCorrectData",
     "testHistoryIsCorrectlyRecorded", "testFrameTimeHasCorrectCalendarAttr",
     "testFrameTimeHasCorrectUnitsAttr", "testFrameTimeHasCorrectValue",
     "testXHasEnoughAttributes", "testYHasEnoughAttributes",
     "testSolarZenithAngleInReseaonableRange"}

\* the test methods of HyperspectralWorkflowTest
Tests == ExpectedFailures \cup Required

\* the body of test method t on container c: "pass", "fail" or "error"
TestBody(t, c) ==
    CASE t = "testTheNumberOfDimensionsInRootLevelIsCorrect" ->
            testTheNumberOfDimensionsInRootLevelIsCorrect(c)
      [] t = "testTheYDimensionsMatchesTimeDimension" ->
            testTheYDimensionsMatchesTimeDimension(c)
      [] t = "testTheWavelengthDimensionsHaveCorrectValues" ->
            testTheWavelengthDimensionsHaveCorrectValues(c)
      [] t = "testWavelengthArrayHasEnoughData" -> testWavelengthArrayHasEnoughData(c)
      [] t = "testWavelengthArrayHasCorrectData" -> testWavelengthArrayHasCorrectData(c)
      [] t = "testHistoryIsCorrectlyRecorded" -> testHistoryIsCorrectlyRecorded(c)
      [] t = "testFrameTimeHasCorrectCalendarAttr" -> testFrameTimeHasCorrectCalendarAttr(c)
      [] t = "testFrameTimeHasCorrectUnitsAttr" -> testFrameTimeHasCorrectUnitsAttr(c)
      [] t = "testFrameTimeHasCorrectValue" -> testFrameTimeHasCorrectValue(c)
      [] t = "testXHasEnoughAttributes" -> testXHasEnoughAttributes(c)
      [] t = "testYHasEnoughAttributes" -> testYHasEnoughAttributes(c)
      [] t = "testCalibrationGraphIsOverReflected" -> testCalibrationGraphIsOverReflected(c)
      [] t = "testSolarZenithAngleInReseaonableRange" ->
            testSolarZenithAngleInReseaonableRange(c)
      [] t = "testCalibrationGraphIsOverExposured" -> testCalibrationGraphIsOverExposured(c)

\* @unittest.expectedFailure: any exception of the body is an expected failure,
\* a body that returns is an unexpected success
expectedFailure(result) ==
    IF result = "pass" THEN "unexpected success" ELSE "expected failure"

\* what the runner records for test method t
RunTest(t, c) ==
    IF t \in ExpectedFailures THEN expectedFailure(TestBody(t, c)) ELSE TestBody(t, c)

Count(outcomes, kind) == Cardinality({t \in DOMAIN outcomes : outcomes[t] = kind})

\* TestResult.wasSuccessful counting an unexpected success as a failure
wasSuccessfulStrict(result) ==
    result.failures = 0 /\ result.errors = 0 /\ result.unexpectedSuccesses = 0

\* TestResult.wasSuccessful of the unittest this suite runs on (Python 2.7):
\* no failure and no error
wasSuccessful(result) == result.failures = 0 /\ result.errors = 0

\* sys.exit(not returnValue)
sys_exit(returnValue) == IF ~returnValue THEN 1 ELSE 0

InitValidator ==
    /\ mode = "validate"
    /\ pc = "start"
    /\ resource = <<>>
    /\ ProcessStart
    /\ mdfiles = <<>>
    /\ CheckIdle
    /\ container \in Containers \cup {Unreadable}
    /\ outcome = <<>>
    /\ tally = <<>>
    /\ exitStatus = -1

\* lines 288-289: setUpClass opens the file, then every test method runs; when the
\* file cannot be opened no test runs and the class counts as one error
RunSuite ==
    /\ mode = "validate" /\ pc = "start"
    /\ outcome' = [t \in Tests |->
                      IF container.readable THEN RunTest(t, container) ELSE "not run"]
    /\ tally' = [failures |-> Count(outcome', "fail"),
                 errors |-> IF container.readable THEN Count(outcome', "error") ELSE 1,
                 expectedFailures |-> Count(outcome', "expected failure"),
                 unexpectedSuccesses |-> Count(outcome', "unexpected success")]
    /\ pc' = "ran"
    /\ UNCHANGED <<mode, resource, procVars, checkVars, container, exitStatus>>

\* lines 290-291
Exit ==
    /\ mode = "validate" /\ pc = "ran"
    /\ exitStatus' = sys_exit(wasSuccessful(tally))
    /\ pc' = "exited"
    /\ UNCHANGED <<mode, resource, procVars, checkVars, container, outcome, tally>>

NextValidator == RunSuite \/ Exit

SpecValidator == InitValidator /\ [][NextValidator]_vars

\* C9: the exit status is 0 exactly when every check not marked expected-failure
\* passes; what the three expected-failure checks do does not enter.
C9_ExitStatusIffRequiredPass ==
    (mode = "validate" /\ pc = "exited") =>
        (exitStatus = 0 <=>
            /\ container.readable
            /\ testTheYDimensionsMatchesTimeDimension(container) = "pass"
            /\ testTheWavelengthDimensionsHaveCorrectValues(container) = "pass"
            /\ testWavelengthArrayHasEnoughData(container) = "pass"
            /\ testWavelengthArrayHasCorrectData(container) = "pass"
            /\ testHistoryIsCorrectlyRecorded(container) = "pass"
            /\ testFrameTimeHasCorrectCalendarAttr(container) = "pass"
            /\ testFrameTimeHasCorrectUnitsAttr(container) = "pass"
            /\ testFrameTimeHasCorrectValue(container) = "pass"
            /\ testXHasEnoughAttributes(container) = "pass"
            /\ testYHasEnoughAttributes(container) = "pass"
            /\ testSolarZenithAngleInReseaonableRange(container) = "pass")

\* an unexpected success of two expected-failure checks beside an exit status of 0
C9_Witness ==
    /\ mode = "validate" /\ pc = "exited"
    /\ exitStatus = 0
    /\ outcome["testTheNumberOfDimensionsInRootLevelIsCorrect"] = "unexpected success"
    /\ outcome["testCalibrationGraphIsOverReflected"] = "unexpected success"
    /\ outcome["testCalibrationGraphIsOverExposured"] = "expected failure"

\* C10: the solar-zenith-angle check fails when some value is above 90 or some
\* value is below 0, and passes exactly when every value lies in [0, 90].
C10_ZenithAngleRangeChecked ==
    (mode = "validate" /\ pc # "start" /\ container.readable) =>
        (outcome["testSolarZenithAngleInReseaonableRange"] = "pass" <=>
            \A i \in 1..Len(container.solar_zenith_angle) :
                /\ container.solar_zenith_angle[i] >= 0
                /\ container.solar_zenith_angle[i] <= 90)

\* C11: the wavelength-cardinality check passes exactly when the cardinality of
\* the wavelength dimension is one of 272, 273, 275, 939, 955: it passes for 273
\* and fails for 300 and for 274, which lie between allowed counts.
C11_WavelengthCardinalityIsMembership ==
    (mode = "validate" /\ pc # "start" /\ container.readable) =>
        /\ outcome["testTheWavelengthDimensionsHaveCorrectValues"] \in {"pass", "fail"}
        /\ outcome["testTheWavelengthDimensionsHaveCorrectValues"] = "pass" <=>
              container.wavelength_dim \in {272, 273, 275, 939, 955}
        /\ container.wavelength_dim = 273 =>
              outcome["testTheWavelengthDimensionsHaveCorrectValues"] = "pass"
        /\ container.wavelength_dim = 300 =>
              outcome["testTheWavelengthDimensionsHaveCorrectValues"] = "fail"

\* the check has failed on a cardinality of 300 and the exit status is 1
C11_Witness ==
    /\ mode = "validate" /\ pc = "exited"
    /\ container.wavelength_dim = 300
    /\ outcome["testTheWavelengthDimensionsHaveCorrectValues"] = "fail"
    /\ outcome["testWavelengthArrayHasEnoughData"] = "pass"
    /\ exitStatus = 1

---------------------------------------------------------------------------
(* Properties of the staging area *)

Recorded == {symlinks[i] : i \in 1..Len(symlinks)}

\* C12: whenever a staging area has been built, the conversion step is run on the
\* staged raw file, the link to the raw file inside the staging directory, and not
\* on the raw file's original path.
C12_ConversionReadsStagedRaw ==
    (mode = "process" /\ tempdir # PyNone) =>
        \A i \in 1..Len(conv) :
            /\ conv[i].input \in Recorded
            /\ dirname(conv[i].input) = tempdir
            /\ conv[i].input \notin PathsOf(resource)

\* the staging loop has visited every key
StagingDone == pc \in {"convert", "verify", "traits", "submit", "cleanup", "end", "done"}

\* the paths that exist inside the staging directory
Staged == {p \in fs : Prefix(p, Len(tempdir) + 1) = tempdir \o "/"}

\* the raw file of the input and the metadata link name derived from it
RawPath(res) == CHOOSE p \in PathsOf(res) : EndsWith(p, "raw")
RawDerivedName(res) == Replace(basename(RawPath(res)), "_raw", "") \o "_metadata.json"

====
